---- MODULE Spec2Model ----
(***************************************************************************)
(* Tugboat inventory: the stock items (inventory/models.py and             *)
(* inventory/manager.py), the per-tugboat registry (TugboatInventory), the *)
(* reorder alert scan (utils/notifications.py) and the maintenance ticket  *)
(* (tickets/maintenance.py).                                               *)
(*                                                                         *)
(* A Python dict is modelled as the sequence of its <<key, value>> pairs   *)
(* in insertion order (the order dict.items() iterates in).                *)
(***************************************************************************)
EXTENDS Integers, Sequences, FiniteSets, TLC

\* ------------------------------------------------------------------ bounds
Tugboats == {"T1", "T2"}
ItemNumbers == {"A1", "B2"}
ItemNames == {"Oil"}
\* quantity arguments of add / remove / add_item / remove_item
Quantities == {-1, 0, 1, 2}
\* <<min_stock, safety_stock>> arguments
StockPolicies == {<<1, 0>>, <<0, 1>>}
\* <<min_stock, safety_stock>> of the items created in the registry
RegistryPolicies == {<<1, 0>>}
\* quantities a ticket may require per line
TicketQuantities == {1, 2}
\* largest on-hand quantity explored
MaxQuantity == 2
\* most usage records explored in the whole registry, by direct removals
MaxRecords == 1
\* most usage records explored in the whole registry, by ticket completions
MaxTicketRecords == 2
\* longest usage history explored for the free-standing item
MaxItemRecords == 2
\* longest run of remove calls explored on the free-standing item
MaxCalls == 3
\* the clock runs from 0 to MaxTime
MaxTime == 2
\* most items held by the whole registry
MaxItems == 2
\* most line items of a ticket
MaxLines == 2
\* the comments written on a maintenance ticket, and the most of them
Comments == {"c1", "c2"}
MaxComments == 2
\* the documents attached to a safety ticket, and the most of them
Documents == {"d1", "d2"}
MaxDocuments == 2
\* most items held by the registry while the tickets are annotated
MaxNoteItems == 1
\* seconds in a day
Day == 24 * 3600
\* the instants at which the clock is read while usage costs are computed
Instants == {0, 5 * Day, 30 * Day, 30 * Day + 1, 35 * Day, 40 * Day,
             90 * Day, 365 * Day}
\* the unit costs, the quantity on hand and the amounts removed while usage
\* costs are computed
Costs == {0, 10}
CostStock == {5}
CostQuantities == {2, 3}
\* the period arguments of get_usage_cost
PeriodArguments == {"monthly", "quarterly", "yearly", "weekly"}
\* the expiry dates of the items: <<>> is None, <<t>> the date t
ExpiryDates == {<<>>, <<30 * Day>>}
\* the maintenance records added to an item, and the most of them
MaintenanceRecords == {"inspection"}
MaxMaintenance == 1
\* the documents lists of the items that are saved
DocumentLists == {<<>>, <<"manual.pdf">>}
\* the users, actions and details handed to log_event, and the most events
AuditUsers == {[none |-> TRUE, username |-> "", role |-> ""],
               [none |-> FALSE, username |-> "alice", role |-> "admin"]}
AuditActions == {"Login", "Removed inventory"}
AuditDetails == {"details"}
MaxEvents == 2
\* the names given to items when the output of the registry calls is recorded
RegistryNames == {"Oil", "Grease"}
\* and the quantities passed to them
RegistryQuantities == {-1, 1, 2}

VARIABLES
    inventory,  \* TugboatInventory.inventory: dict tugboat -> dict item_number -> item
    stock,      \* a free-standing InventoryItem
    now,        \* datetime.now()
    ticket,     \* the MaintenanceTicket under consideration
    last,       \* the last call: its name, what it printed, returned, raised and sent
                \* (registry calls are recorded as "call", without their output)
    episode,    \* per item: the notifications sent and the scans completed in its
                \* current below-threshold episode (history, not program state)
    safety,     \* the SafetyTicket under consideration
    returned,   \* what the last query handed back to its caller
    audit_log,  \* utils/security.py: the module-level list audit_log
    removals,   \* the remove calls made on the free-standing item since it was
                \* built or last added to (history, not program state)
    conn        \* data_storage.py: the rows of the table inventory_items

vars ==
    <<inventory, stock, now, ticket, last, episode, safety, returned, audit_log,
      removals, conn>>

\* ------------------------------------------------------------ Python dict
Has(d, k) == \E i \in 1..Len(d) : d[i][1] = k

Index(d, k) == CHOOSE i \in 1..Len(d) : d[i][1] = k

Get(d, k) == d[Index(d, k)][2]

Put(d, k, v) == IF Has(d, k) THEN [d EXCEPT ![Index(d, k)] = <<k, v>>]
                ELSE Append(d, <<k, v>>)

Keys(d) == [i \in 1..Len(d) |-> d[i][1]]

\* ------------------------------------------------------------------ items
\* inventory/models.py: the item carries alert_active, False at construction
InventoryItem(item_number, name, min_stock, safety_stock, quantity) ==
    [item_number |-> item_number, name |-> name,
     min_stock |-> min_stock, safety_stock |-> safety_stock,
     quantity |-> quantity, usage_history |-> <<>>,
     has_alert_active |-> TRUE, alert_active |-> FALSE]

\* inventory/manager.py: the same class without the alert_active attribute
manager_InventoryItem(item_number, name, min_stock, safety_stock, quantity) ==
    [item_number |-> item_number, name |-> name,
     min_stock |-> min_stock, safety_stock |-> safety_stock,
     quantity |-> quantity, usage_history |-> <<>>,
     has_alert_active |-> FALSE, alert_active |-> FALSE]

\* add without the check of the sign
add_unchecked(item, quantity) == [item EXCEPT !.quantity = @ + quantity]

add(item, quantity) ==
    IF quantity < 0 THEN item
    ELSE [item EXCEPT !.quantity = @ + quantity]

add_printed(item, quantity) ==
    IF quantity < 0 THEN <<"Cannot add a negative quantity.">> ELSE <<>>

\* remove that hands out what is left when the stock is short
remove_partial(item, quantity, t) ==
    IF quantity < 0 THEN item
    ELSE IF item.quantity >= quantity
         THEN [item EXCEPT !.quantity = @ - quantity,
                           !.usage_history =
                               Append(@, [timestamp |-> t, quantity |-> quantity])]
         ELSE [item EXCEPT !.quantity = 0,
                           !.usage_history =
                               Append(@, [timestamp |-> t, quantity |-> item.quantity])]

\* remove that records the removal at the front of the history
remove_front(item, quantity, t) ==
    IF quantity < 0 THEN item
    ELSE IF item.quantity >= quantity
         THEN [item EXCEPT !.quantity = @ - quantity,
                           !.usage_history =
                               <<[timestamp |-> t, quantity |-> quantity]>> \o @]
         ELSE item

\* remove that deducts without recording the removal
remove_unrecorded(item, quantity, t) ==
    IF quantity < 0 THEN item
    ELSE IF item.quantity >= quantity
         THEN [item EXCEPT !.quantity = @ - quantity]
         ELSE item

\* remove that keeps the latest usage record only
remove_latest(item, quantity, t) ==
    IF quantity < 0 THEN item
    ELSE IF item.quantity >= quantity
         THEN [item EXCEPT !.quantity = @ - quantity,
                           !.usage_history =
                               <<[timestamp |-> t, quantity |-> quantity]>>]
         ELSE item

remove(item, quantity, t) ==
    IF quantity < 0 THEN item
    ELSE IF item.quantity >= quantity
         THEN [item EXCEPT !.quantity = @ - quantity,
                           !.usage_history =
                               Append(@, [timestamp |-> t, quantity |-> quantity])]
         ELSE item

remove_printed(item, quantity) ==
    IF quantity < 0 THEN <<"Cannot remove a negative quantity.">>
    ELSE IF item.quantity >= quantity THEN <<>>
         ELSE <<"Not enough in stock.">>

\* check_reorder that is false at the threshold
check_reorder_strict(item) == item.quantity < (item.min_stock + item.safety_stock)

check_reorder(item) == item.quantity <= (item.min_stock + item.safety_stock)

\* the attributes of the constructor that the usage cost, the expiry test
\* and the maintenance records read: cost, expiry_date, maintenance_records
Costed(item, cost, expiry_date) ==
    item @@ [cost |-> cost, expiry_date |-> expiry_date,
             maintenance_records |-> <<>>]

\* add_maintenance_record that files the record with the usage records
add_maintenance_record_as_usage(item, record) ==
    [item EXCEPT !.usage_history = Append(@, record)]

add_maintenance_record(item, record) ==
    [item EXCEPT !.maintenance_records = Append(@, record)]

\* the lengths of the monthly and of the quarterly period exchanged
delta_exchanged(period) ==
    IF period = "monthly" THEN 90 * 24 * 3600
    ELSE IF period = "quarterly" THEN 30 * 24 * 3600
    ELSE IF period = "yearly" THEN 365 * 24 * 3600
    ELSE 0

\* the length of a period in seconds; 0 stands for no such period
delta(period) ==
    IF period = "monthly" THEN 30 * 24 * 3600
    ELSE IF period = "quarterly" THEN 90 * 24 * 3600
    ELSE IF period = "yearly" THEN 365 * 24 * 3600
    ELSE 0

ValidPeriod(period) == period \in {"monthly", "quarterly", "yearly"}

\* the loop over usage_history from record i on, total_cost accumulated
RECURSIVE total_cost_strict(_, _, _, _, _)
total_cost_strict(item, d, t, i, total_cost) ==
    IF i > Len(item.usage_history) THEN total_cost
    ELSE total_cost_strict(item, d, t, i + 1,
             IF t - item.usage_history[i].timestamp < d
             THEN total_cost + item.usage_history[i].quantity * item.cost
             ELSE total_cost)

\* get_usage_cost that leaves out the record whose age is exactly the period
get_usage_cost_strict(item, period, t) ==
    IF ~ValidPeriod(period) THEN 0
    ELSE total_cost_strict(item, delta(period), t, 1, 0)

RECURSIVE total_cost_from(_, _, _, _, _)
total_cost_from(item, d, t, i, total_cost) ==
    IF i > Len(item.usage_history) THEN total_cost
    ELSE total_cost_from(item, d, t, i + 1,
             IF t - item.usage_history[i].timestamp <= d
             THEN total_cost + item.usage_history[i].quantity * item.cost
             ELSE total_cost)

get_usage_cost(item, period, t) ==
    IF ~ValidPeriod(period) THEN 0
    ELSE total_cost_from(item, delta(period), t, 1, 0)

get_usage_cost_printed(period) ==
    IF ~ValidPeriod(period)
    THEN <<"Invalid period. Use 'monthly', 'quarterly', or 'yearly'.">>
    ELSE <<>>

\* is_expired that is true from the expiry date on
is_expired_inclusive(item, t) ==
    IF item.expiry_date = <<>> THEN FALSE
    ELSE t >= item.expiry_date[1]

is_expired(item, t) ==
    IF item.expiry_date = <<>> THEN FALSE
    ELSE t > item.expiry_date[1]

\* --------------------------------------------------------------- registry
\* add_tugboat that gives the name an empty map whether it is known or not
add_tugboat_reset(inv, tugboat_name) == Put(inv, tugboat_name, <<>>)

add_tugboat(inv, tugboat_name) ==
    IF ~Has(inv, tugboat_name) THEN Put(inv, tugboat_name, <<>>) ELSE inv

add_tugboat_printed(inv, tugboat_name) ==
    IF ~Has(inv, tugboat_name) THEN <<>> ELSE <<"Tugboat already exists.">>

\* add_item that rewrites the attributes of an item it restocks
add_item_overwrite(inv, tugboat_name, item_number, name, min_stock, safety_stock, quantity) ==
    IF ~Has(inv, tugboat_name) THEN inv
    ELSE LET tugboat_inventory == Get(inv, tugboat_name) IN
         IF Has(tugboat_inventory, item_number)
         THEN Put(inv, tugboat_name,
                  Put(tugboat_inventory, item_number,
                      [add(Get(tugboat_inventory, item_number), quantity)
                          EXCEPT !.name = name, !.min_stock = min_stock,
                                 !.safety_stock = safety_stock]))
         ELSE Put(inv, tugboat_name,
                  Put(tugboat_inventory, item_number,
                      manager_InventoryItem(item_number, name, min_stock,
                                            safety_stock, quantity)))

\* add_item that registers a tugboat it does not know
add_item_autoregister(inv, tugboat_name, item_number, name, min_stock, safety_stock, quantity) ==
    LET reg == IF Has(inv, tugboat_name) THEN inv ELSE Put(inv, tugboat_name, <<>>)
        tugboat_inventory == Get(reg, tugboat_name)
    IN  IF Has(tugboat_inventory, item_number)
        THEN Put(reg, tugboat_name,
                 Put(tugboat_inventory, item_number,
                     add(Get(tugboat_inventory, item_number), quantity)))
        ELSE Put(reg, tugboat_name,
                 Put(tugboat_inventory, item_number,
                     manager_InventoryItem(item_number, name, min_stock,
                                           safety_stock, quantity)))

add_item(inv, tugboat_name, item_number, name, min_stock, safety_stock, quantity) ==
    IF ~Has(inv, tugboat_name) THEN inv
    ELSE LET tugboat_inventory == Get(inv, tugboat_name) IN
         IF Has(tugboat_inventory, item_number)
         THEN Put(inv, tugboat_name,
                  Put(tugboat_inventory, item_number,
                      add(Get(tugboat_inventory, item_number), quantity)))
         ELSE Put(inv, tugboat_name,
                  Put(tugboat_inventory, item_number,
                      manager_InventoryItem(item_number, name, min_stock,
                                            safety_stock, quantity)))

add_item_printed(inv, tugboat_name, item_number, quantity) ==
    IF ~Has(inv, tugboat_name) THEN <<"Tugboat not found.">>
    ELSE IF Has(Get(inv, tugboat_name), item_number)
         THEN add_printed(Get(Get(inv, tugboat_name), item_number), quantity)
         ELSE <<>>

\* remove_item that removes from the item of that number on every tugboat
remove_item_everywhere(inv, tugboat_name, item_number, quantity, t) ==
    IF Has(inv, tugboat_name) /\ Has(Get(inv, tugboat_name), item_number)
    THEN [i \in 1..Len(inv) |->
             <<inv[i][1],
               IF Has(inv[i][2], item_number)
               THEN Put(inv[i][2], item_number,
                        remove(Get(inv[i][2], item_number), quantity, t))
               ELSE inv[i][2]>>]
    ELSE inv

remove_item(inv, tugboat_name, item_number, quantity, t) ==
    IF Has(inv, tugboat_name) /\ Has(Get(inv, tugboat_name), item_number)
    THEN Put(inv, tugboat_name,
             Put(Get(inv, tugboat_name), item_number,
                 remove(Get(Get(inv, tugboat_name), item_number), quantity, t)))
    ELSE inv

remove_item_printed(inv, tugboat_name, item_number, quantity) ==
    IF Has(inv, tugboat_name) /\ Has(Get(inv, tugboat_name), item_number)
    THEN remove_printed(Get(Get(inv, tugboat_name), item_number), quantity)
    ELSE <<"Item or tugboat not found.">>

\* what remove_item hands back to its caller: the function has no return
\* statement and raises nothing
remove_item_returned(inv, tugboat_name, item_number, quantity) == "None"

get_inventory(inv, tugboat_name) ==
    IF Has(inv, tugboat_name) THEN Get(inv, tugboat_name) ELSE <<>>

\* the (tugboat, item_number) pairs of the registry, in iteration order
RECURSIVE PairsFrom(_, _)
PairsFrom(inv, i) ==
    IF i > Len(inv) THEN <<>>
    ELSE [j \in 1..Len(inv[i][2]) |-> <<inv[i][1], inv[i][2][j][1]>>]
         \o PairsFrom(inv, i + 1)

Pairs(inv) == PairsFrom(inv, 1)

PairSet(inv) ==
    UNION {{<<inv[i][1], inv[i][2][j][1]>> : j \in 1..Len(inv[i][2])} : i \in 1..Len(inv)}

ItemAt(inv, p) == Get(Get(inv, p[1]), p[2])

ItemCount(inv) == Cardinality(PairSet(inv))

\* ------------------------------------------------------------ alert scan
\* the body of the loop of process_inventory_alerts for one item; reading
\* item.alert_active raises AttributeError when the item has no such attribute
\* the loop body that never marks the item: it alerts at every scan
process_item_unmarked(item) ==
    IF ~item.has_alert_active
    THEN [item |-> item, send |-> FALSE, alert |-> FALSE, raised |-> TRUE]
    ELSE IF check_reorder(item)
         THEN [item |-> item, send |-> ~item.alert_active, alert |-> TRUE,
               raised |-> FALSE]
         ELSE [item |-> [item EXCEPT !.alert_active = FALSE],
               send |-> FALSE, alert |-> FALSE, raised |-> FALSE]

\* the loop body that never clears the flag of an item back above its
\* threshold
process_item_sticky(item) ==
    IF ~item.has_alert_active
    THEN [item |-> item, send |-> FALSE, alert |-> FALSE, raised |-> TRUE]
    ELSE IF check_reorder(item)
         THEN [item |-> [item EXCEPT !.alert_active = TRUE],
               send |-> ~item.alert_active, alert |-> TRUE, raised |-> FALSE]
         ELSE [item |-> item, send |-> FALSE, alert |-> FALSE, raised |-> FALSE]

process_item(item) ==
    IF check_reorder(item)
    THEN IF ~item.has_alert_active
         THEN [item |-> item, send |-> FALSE, alert |-> FALSE, raised |-> TRUE]
         ELSE IF ~item.alert_active
              THEN [item |-> [item EXCEPT !.alert_active = TRUE],
                    send |-> TRUE, alert |-> TRUE, raised |-> FALSE]
              ELSE [item |-> item, send |-> FALSE, alert |-> TRUE, raised |-> FALSE]
    ELSE IF ~item.has_alert_active
         THEN [item |-> item, send |-> FALSE, alert |-> FALSE, raised |-> TRUE]
         ELSE IF item.alert_active
              THEN [item |-> [item EXCEPT !.alert_active = FALSE],
                    send |-> FALSE, alert |-> FALSE, raised |-> FALSE]
              ELSE [item |-> item, send |-> FALSE, alert |-> FALSE, raised |-> FALSE]

RECURSIVE ScanFrom(_, _, _)
ScanFrom(pairs, i, st) ==
    IF i > Len(pairs) THEN st
    ELSE LET p == pairs[i]
             r == process_item(ItemAt(st.inventory, p))
         IN  IF r.raised THEN [st EXCEPT !.raised = TRUE]
             ELSE ScanFrom(pairs, i + 1,
                    [inventory |-> Put(st.inventory, p[1],
                                       Put(Get(st.inventory, p[1]), p[2], r.item)),
                     alerts |-> IF r.alert THEN Append(st.alerts, p) ELSE st.alerts,
                     sent |-> IF r.send THEN Append(st.sent, p) ELSE st.sent,
                     raised |-> FALSE])

\* returns the registry after the scan, the alerts list it returns (a list of
\* (tugboat, item) pairs, the item named by its number), the alerts it
\* e-mailed, and whether it raised instead of returning
process_inventory_alerts(inv) ==
    ScanFrom(Pairs(inv), 1,
             [inventory |-> inv, alerts |-> <<>>, sent |-> <<>>, raised |-> FALSE])

RECURSIVE ActiveFrom(_, _, _)
ActiveFrom(inv, pairs, i) ==
    IF i > Len(pairs) THEN <<>>
    ELSE (IF check_reorder(ItemAt(inv, pairs[i])) THEN <<pairs[i]>> ELSE <<>>)
         \o ActiveFrom(inv, pairs, i + 1)

get_active_alerts(inv) == ActiveFrom(inv, Pairs(inv), 1)

\* ----------------------------------------------------- maintenance ticket
NoTicket ==
    [created |-> FALSE, required_items |-> <<>>, comments |-> <<>>,
     completed |-> FALSE]

MaintenanceTicket(required_items) ==
    [created |-> TRUE, required_items |-> required_items, comments |-> <<>>,
     completed |-> FALSE]

RECURSIVE DeductFrom(_, _, _, _, _)
DeductFrom(required_items, i, inv, tugboat_name, t) ==
    IF i > Len(required_items) THEN inv
    ELSE DeductFrom(required_items, i + 1,
                    remove_item(inv, tugboat_name, required_items[i][1],
                                required_items[i][2], t),
                    tugboat_name, t)

RECURSIVE DeductPrinted(_, _, _, _, _)
DeductPrinted(required_items, i, inv, tugboat_name, t) ==
    IF i > Len(required_items) THEN <<>>
    ELSE remove_item_printed(inv, tugboat_name, required_items[i][1],
                             required_items[i][2])
         \o DeductPrinted(required_items, i + 1,
                          remove_item(inv, tugboat_name, required_items[i][1],
                                      required_items[i][2], t),
                          tugboat_name, t)

\* complete_ticket that deducts and leaves the ticket pending
complete_ticket_pending(tk, inv, tugboat_name, t) ==
    [ticket |-> tk,
     inventory |-> DeductFrom(tk.required_items, 1, inv, tugboat_name, t)]

\* complete_ticket that puts the stock back when a line was refused
complete_ticket_rollback(tk, inv, tugboat_name, t) ==
    [ticket |-> [tk EXCEPT !.completed = TRUE],
     inventory |-> IF DeductPrinted(tk.required_items, 1, inv, tugboat_name, t) = <<>>
                   THEN DeductFrom(tk.required_items, 1, inv, tugboat_name, t)
                   ELSE inv]

complete_ticket(tk, inv, tugboat_name, t) ==
    [ticket |-> [tk EXCEPT !.completed = TRUE],
     inventory |-> DeductFrom(tk.required_items, 1, inv, tugboat_name, t)]

complete_ticket_printed(tk, inv, tugboat_name, t) ==
    DeductPrinted(tk.required_items, 1, inv, tugboat_name, t)
    \o <<"Maintenance ticket has been completed.">>

\* the required_items dicts explored: at most MaxLines lines, keys distinct
RequiredItemsChoices ==
    {r \in UNION {[1..k -> ItemNumbers \X TicketQuantities] : k \in 0..MaxLines} :
        \A i, j \in 1..Len(r) : i # j => r[i][1] # r[j][1]}

\* add_comment that keeps the latest comment only
add_comment_latest(tk, comment) == [tk EXCEPT !.comments = <<comment>>]

add_comment(tk, comment) == [tk EXCEPT !.comments = Append(@, comment)]

\* ---------------------------------------------------------- safety ticket
NoSafetyTicket == [created |-> FALSE, documentation |-> <<>>, completed |-> FALSE]

SafetyTicket == [created |-> TRUE, documentation |-> <<>>, completed |-> FALSE]

add_documentation(tk, doc) == [tk EXCEPT !.documentation = Append(@, doc)]

\* complete_ticket that flips the flag
SafetyTicket_complete_ticket_toggle(tk) == [tk EXCEPT !.completed = ~@]

SafetyTicket_complete_ticket(tk) == [tk EXCEPT !.completed = TRUE]

SafetyTicket_complete_ticket_printed(tk) ==
    <<"Safety ticket has been marked as completed.">>

\* --------------------------------------------------------------- audit log
\* utils/security.py; a user is a record whose field none tells None from a
\* User instance
isoformat(t) == ToString(t)

AuditEvent(user, action, details, t) ==
    [timestamp |-> isoformat(t),
     username |-> IF ~user.none THEN user.username ELSE "System",
     role |-> IF ~user.none THEN user.role ELSE "System",
     action |-> action,
     details |-> details]

\* log_event that puts the event at the head of the log
log_event_front(log, user, action, details, t) ==
    <<AuditEvent(user, action, details, t)>> \o log

log_event(log, user, action, details, t) ==
    Append(log, AuditEvent(user, action, details, t))

\* get_audit_log returns the list itself
TheAuditLog == [kind |-> "audit_log", of |-> "", value |-> <<>>]

\* ------------------------------------------------------------- persistence
\* data_storage.py, table inventory_items. A JSON text is the record
\* [json |-> v] of the value v it encodes; a column that is NULL is <<>>, a
\* column that holds x is <<x>>.
Documented(item, documents) == item @@ [documents |-> documents]

\* json.dumps raises TypeError on a datetime: every usage record holds one
\* under 'timestamp', so that only the empty usage history is serializable
\* (maintenance records and documents are strings)
json_dumps_raises(usage_history) == usage_history # <<>>

json_dumps(v) == [json |-> v]

json_loads(text) == text.json

\* strftime("%Y-%m-%d"): the day of the instant t, without its time of day
strftime(t) == ToString(t \div Day)

\* the statements of save_inventory_item that raise: json.dumps of the usage
\* history, and int(item.alert_active) on an item without the attribute
save_inventory_item_raises(item) ==
    \/ json_dumps_raises(item.usage_history)
    \/ ~item.has_alert_active

Row(id, tugboat_name, item) ==
    [id |-> id, tugboat_name |-> tugboat_name, item_number |-> item.item_number,
     name |-> item.name, min_stock |-> item.min_stock,
     safety_stock |-> item.safety_stock,
     expiry_date |-> IF item.expiry_date # <<>>
                     THEN <<strftime(item.expiry_date[1])>> ELSE <<>>,
     documents |-> <<json_dumps(item.documents)>>,
     cost |-> item.cost, quantity |-> item.quantity,
     usage_history |-> <<json_dumps(item.usage_history)>>,
     maintenance_records |-> <<json_dumps(item.maintenance_records)>>,
     alert_active |-> IF item.alert_active THEN 1 ELSE 0]

\* the rows SELECT id ... WHERE tugboat_name = ? AND item_number = ? finds
Found(rows, tugboat_name, item_number) ==
    {i \in 1..Len(rows) : /\ rows[i].tugboat_name = tugboat_name
                          /\ rows[i].item_number = item_number}

save_inventory_item(rows, tugboat_name, item) ==
    IF save_inventory_item_raises(item) THEN rows
    ELSE IF Found(rows, tugboat_name, item.item_number) # {}
         THEN LET i == CHOOSE k \in Found(rows, tugboat_name, item.item_number) :
                           \A m \in Found(rows, tugboat_name, item.item_number) : k <= m
              IN [rows EXCEPT ![i] = Row(rows[i].id, tugboat_name, item)]
         ELSE Append(rows, Row(Len(rows) + 1, tugboat_name, item))

\* dict(row) with the three JSON columns decoded, [] for an empty column
item_dict(row) ==
    [row EXCEPT
        !.usage_history = IF @ # <<>> THEN json_loads(@[1]) ELSE <<>>,
        !.maintenance_records = IF @ # <<>> THEN json_loads(@[1]) ELSE <<>>,
        !.documents = IF @ # <<>> THEN json_loads(@[1]) ELSE <<>>]

RECURSIVE ItemDicts(_, _, _)
ItemDicts(rows, tugboat_name, i) ==
    IF i > Len(rows) THEN <<>>
    ELSE (IF rows[i].tugboat_name = tugboat_name THEN <<item_dict(rows[i])>> ELSE <<>>)
         \o ItemDicts(rows, tugboat_name, i + 1)

get_inventory_items(rows, tugboat_name) == ItemDicts(rows, tugboat_name, 1)

\* ---------------------------------------------------------- return values
\* A Python object handed to a caller is a reference.  The dict of a tugboat
\* is created by add_tugboat and never replaced, so it is named by its
\* tugboat; the registry dict is one object; any other value is a new object.
ItemsOfTugboat(tugboat_name) == [kind |-> "items", of |-> tugboat_name, value |-> <<>>]

TheRegistry == [kind |-> "registry", of |-> "", value |-> <<>>]

Fresh(v) == [kind |-> "fresh", of |-> "", value |-> v]

\* what a caller reads through a reference when the registry is inv
Deref(inv, ref) ==
    IF ref.kind = "items" THEN Get(inv, ref.of)
    ELSE IF ref.kind = "registry" THEN inv
    ELSE ref.value

\* op, arg: the query and the tugboat it named; known: whether that tugboat
\* was registered at the time (history); ref: the object handed back; flag,
\* number: a boolean or a number handed back
NoReturn ==
    [op |-> "none", arg |-> "", known |-> FALSE, ref |-> Fresh(<<>>),
     flag |-> FALSE, number |-> 0]

\* get_inventory that hands out a copy of the map
get_inventory_copy(inv, tugboat_name) == Fresh(get_inventory(inv, tugboat_name))

\* self.inventory.get(tugboat_name, {}): the dict of the tugboat itself, or a
\* new empty dict
get_inventory_returned(inv, tugboat_name) ==
    IF Has(inv, tugboat_name) THEN ItemsOfTugboat(tugboat_name) ELSE Fresh(<<>>)

\* return self.inventory: the registry dict itself
list_all_inventories(inv) == TheRegistry

\* ---------------------------------------------------------------- history
NoEpisode == [open |-> FALSE, stale |-> FALSE, sent |-> 0, scanned |-> FALSE]

Count(s, x) == Cardinality({i \in 1..Len(s) : s[i] = x})

\* An alert episode of an item lasts while check_reorder() stays true.  Per
\* item: whether an episode is open, whether alert_active was already True
\* when it began (stale), the notifications sent for the item since it began,
\* and whether a scan ran to completion since it began.
Track(inv, ep, completed, sent) ==
    [p \in PairSet(inv) |->
        IF ~check_reorder(ItemAt(inv, p)) THEN NoEpisode
        ELSE LET old == IF p \in DOMAIN ep THEN ep[p] ELSE NoEpisode
             IN  IF old.open
                 THEN [old EXCEPT !.sent = @ + Count(sent, p),
                                  !.scanned = @ \/ completed]
                 ELSE [open |-> TRUE, stale |-> ItemAt(inv, p).alert_active,
                       sent |-> Count(sent, p), scanned |-> completed]]

\* A run of remove calls on an item: the quantity it started with, the calls
\* made with an amount >= 0, the amounts asked for and handed out, the calls
\* refused, and the quantity before the first refused call.
NoRemovals(item) ==
    [start |-> item.quantity, calls |-> 0, asked |-> 0, taken |-> 0,
     refused |-> 0, before |-> 0]

Removed(run, item, quantity, after) ==
    IF quantity < 0 THEN run
    ELSE [run EXCEPT !.calls = @ + 1,
                     !.asked = @ + quantity,
                     !.taken = @ + (IF Len(after.usage_history) > Len(item.usage_history)
                                    THEN quantity ELSE 0),
                     !.refused = @ + (IF Len(after.usage_history) > Len(item.usage_history)
                                      THEN 0 ELSE 1),
                     !.before = IF run.refused = 0
                                   /\ Len(after.usage_history) = Len(item.usage_history)
                                THEN item.quantity ELSE @]

\* ----------------------------------------------------------------- system
RECURSIVE RecordsFrom(_, _, _)
RecordsFrom(inv, pairs, i) ==
    IF i > Len(pairs) THEN 0
    ELSE Len(ItemAt(inv, pairs[i]).usage_history) + RecordsFrom(inv, pairs, i + 1)

Records(inv) == RecordsFrom(inv, Pairs(inv), 1)

Bounded(inv, records) ==
    /\ ItemCount(inv) <= MaxItems
    /\ \A p \in PairSet(inv) : ItemAt(inv, p).quantity <= MaxQuantity
    /\ Records(inv) <= records

Out(op, printed) ==
    [op |-> op, printed |-> printed, raised |-> FALSE, alerts |-> <<>>, sent |-> <<>>]

Init ==
    /\ inventory = <<>>
    /\ stock = InventoryItem("A1", "Oil", 0, 0, 0)
    /\ now = 0
    /\ ticket = NoTicket
    /\ last = Out("init", <<>>)
    /\ episode = Track(<<>>, <<>>, FALSE, <<>>)
    /\ safety = NoSafetyTicket
    /\ returned = NoReturn
    /\ audit_log = <<>>
    /\ conn = <<>>
    /\ removals = NoRemovals(stock)

Tick ==
    /\ now < MaxTime
    /\ now' = now + 1
    /\ UNCHANGED <<conn, removals, returned, audit_log, safety, inventory, stock, ticket, last, episode>>

AddTugboat(t) ==
    /\ inventory' = add_tugboat(inventory, t)
    /\ last' = Out("call", <<>>)
    /\ episode' = Track(inventory', episode, FALSE, <<>>)
    /\ UNCHANGED <<conn, removals, returned, audit_log, safety, stock, now, ticket>>

AddItem(t, n, name, ms, ss, q) ==
    /\ Bounded(add_item(inventory, t, n, name, ms, ss, q), MaxTicketRecords)
    /\ inventory' = add_item(inventory, t, n, name, ms, ss, q)
    /\ last' = Out("call", <<>>)
    /\ episode' = Track(inventory', episode, FALSE, <<>>)
    /\ UNCHANGED <<conn, removals, returned, audit_log, safety, stock, now, ticket>>

\* the composing application stores an item of inventory/models.py in the
\* live map get_inventory returns (a new key only)
LoadItem(t, n, name, ms, ss, q) ==
    /\ Has(inventory, t)
    /\ ~Has(get_inventory(inventory, t), n)
    /\ Bounded(Put(inventory, t, Put(get_inventory(inventory, t), n,
                                     InventoryItem(n, name, ms, ss, q))),
               MaxTicketRecords)
    /\ inventory' = Put(inventory, t, Put(get_inventory(inventory, t), n,
                                          InventoryItem(n, name, ms, ss, q)))
    /\ last' = Out("call", <<>>)
    /\ episode' = Track(inventory', episode, FALSE, <<>>)
    /\ UNCHANGED <<conn, removals, returned, audit_log, safety, stock, now, ticket>>

RemoveItem(t, n, q) ==
    /\ Bounded(remove_item(inventory, t, n, q, now), MaxRecords)
    /\ inventory' = remove_item(inventory, t, n, q, now)
    /\ last' = Out("call", <<>>)
    /\ episode' = Track(inventory', episode, FALSE, <<>>)
    /\ UNCHANGED <<conn, removals, returned, audit_log, safety, stock, now, ticket>>

Scan ==
    LET r == process_inventory_alerts(inventory) IN
    /\ inventory' = r.inventory
    /\ last' = [op |-> "process_inventory_alerts", printed |-> <<>>,
                raised |-> r.raised,
                alerts |-> IF r.raised THEN <<>> ELSE r.alerts,
                sent |-> r.sent]
    /\ episode' = Track(r.inventory, episode, ~r.raised, r.sent)
    /\ UNCHANGED <<conn, removals, returned, audit_log, safety, stock, now, ticket>>

NewTicket(required_items) ==
    /\ ~ticket.created
    /\ ticket' = MaintenanceTicket(required_items)
    /\ last' = Out("call", <<>>)
    /\ UNCHANGED <<conn, removals, returned, audit_log, safety, inventory, stock, now, episode>>

CompleteTicket(t) ==
    LET r == complete_ticket(ticket, inventory, t, now) IN
    /\ ticket.created
    /\ Bounded(r.inventory, MaxTicketRecords)
    /\ inventory' = r.inventory
    /\ ticket' = r.ticket
    /\ last' = Out("complete_ticket",
                   complete_ticket_printed(ticket, inventory, t, now))
    /\ episode' = Track(r.inventory, episode, FALSE, <<>>)
    /\ UNCHANGED <<conn, removals, returned, audit_log, safety, stock, now>>

\* the registry and the alert scan
Next ==
    \/ \E t \in Tugboats : AddTugboat(t)
    \/ \E t \in Tugboats, n \in ItemNumbers, name \in ItemNames,
          pol \in RegistryPolicies, q \in Quantities :
          AddItem(t, n, name, pol[1], pol[2], q)
    \/ \E t \in Tugboats, n \in ItemNumbers, name \in ItemNames,
          pol \in RegistryPolicies, q \in Quantities :
          LoadItem(t, n, name, pol[1], pol[2], q)
    \/ \E t \in Tugboats, n \in ItemNumbers, q \in Quantities : RemoveItem(t, n, q)
    \/ Scan

Spec == Init /\ [][Next]_vars

\* the registry and the maintenance ticket
NextTicket ==
    \/ \E t \in Tugboats : AddTugboat(t)
    \/ \E t \in Tugboats, n \in ItemNumbers, name \in ItemNames,
          pol \in RegistryPolicies, q \in Quantities :
          AddItem(t, n, name, pol[1], pol[2], q)
    \/ \E r \in RequiredItemsChoices : NewTicket(r)
    \/ \E t \in Tugboats : CompleteTicket(t)

SpecTicket == Init /\ [][NextTicket]_vars

AddComment(c) ==
    /\ ticket.created
    /\ Len(ticket.comments) < MaxComments
    /\ ticket' = add_comment(ticket, c)
    /\ last' = Out("add_comment", <<>>)
    /\ UNCHANGED <<conn, removals, returned, audit_log, safety, inventory, stock, now, episode>>

NewSafetyTicket ==
    /\ ~safety.created
    /\ safety' = SafetyTicket
    /\ last' = Out("call", <<>>)
    /\ UNCHANGED <<conn, removals, returned, audit_log, inventory, stock, now, ticket, episode>>

AddDocumentation(d) ==
    /\ safety.created
    /\ Len(safety.documentation) < MaxDocuments
    /\ safety' = add_documentation(safety, d)
    /\ last' = Out("call", <<>>)
    /\ UNCHANGED <<conn, removals, returned, audit_log, inventory, stock, now, ticket, episode>>

SafetyComplete ==
    /\ safety.created
    /\ safety' = SafetyTicket_complete_ticket(safety)
    /\ last' = Out("SafetyTicket.complete_ticket",
                   SafetyTicket_complete_ticket_printed(safety))
    /\ UNCHANGED <<conn, removals, returned, audit_log, inventory, stock, now, ticket, episode>>

\* the two kinds of ticket, annotated and completed over a small registry
NextNotes ==
    \/ \E t \in Tugboats : AddTugboat(t)
    \/ \E t \in Tugboats, n \in ItemNumbers, name \in ItemNames,
          pol \in RegistryPolicies, q \in TicketQuantities :
          AddItem(t, n, name, pol[1], pol[2], q) /\ ItemCount(inventory') <= MaxNoteItems
    \/ \E r \in RequiredItemsChoices : Len(r) <= MaxNoteItems /\ NewTicket(r)
    \/ \E c \in Comments : AddComment(c)
    \/ \E t \in Tugboats : CompleteTicket(t)
    \/ NewSafetyTicket
    \/ \E d \in Documents : AddDocumentation(d)
    \/ SafetyComplete

SpecNotes == Init /\ [][NextNotes]_vars

\* A registry call with what it printed kept in last.
Recorded(op, printed, inv) ==
    /\ last' = Out(op, printed)
    /\ inventory' = inv
    /\ episode' = Track(inv, episode, FALSE, <<>>)
    /\ UNCHANGED <<conn, removals, returned, audit_log, safety, stock, now, ticket>>

CallAddTugboat(t) ==
    Recorded("add_tugboat", add_tugboat_printed(inventory, t),
             add_tugboat(inventory, t))

CallAddItem(t, n, name, ms, ss, q) ==
    /\ Recorded("add_item", add_item_printed(inventory, t, n, q),
                add_item(inventory, t, n, name, ms, ss, q))
    /\ Bounded(inventory', MaxRecords)

CallRemoveItem(t, n, q) ==
    /\ Recorded("remove_item", remove_item_printed(inventory, t, n, q),
                remove_item(inventory, t, n, q, now))
    /\ Bounded(inventory', MaxRecords)

CallGetInventory(t) ==
    Recorded("get_inventory", <<>>, inventory)

\* the registry alone, every call with its output
NextRegistry ==
    \/ \E t \in Tugboats : CallAddTugboat(t)
    \/ \E t \in Tugboats, n \in ItemNumbers, name \in RegistryNames,
          pol \in RegistryPolicies, q \in RegistryQuantities :
          CallAddItem(t, n, name, pol[1], pol[2], q)
    \/ \E t \in Tugboats, n \in ItemNumbers, q \in RegistryQuantities : CallRemoveItem(t, n, q)
    \/ \E t \in Tugboats : CallGetInventory(t)

SpecRegistry == Init /\ [][NextRegistry]_vars

GetInventory(t) ==
    /\ returned' = [NoReturn EXCEPT !.op = "get_inventory", !.arg = t,
                                    !.known = Has(inventory, t),
                                    !.ref = get_inventory_returned(inventory, t)]
    /\ last' = Out("get_inventory", <<>>)
    /\ UNCHANGED <<conn, removals, audit_log, safety, inventory, stock, now, ticket, episode>>

ListAllInventories ==
    /\ returned' = [NoReturn EXCEPT !.op = "list_all_inventories",
                                    !.ref = list_all_inventories(inventory)]
    /\ last' = Out("list_all_inventories", <<>>)
    /\ UNCHANGED <<conn, removals, audit_log, safety, inventory, stock, now, ticket, episode>>

\* the registry and the maps it hands out
NextViews ==
    \/ \E t \in Tugboats : AddTugboat(t)
    \/ \E t \in Tugboats, n \in ItemNumbers, name \in ItemNames,
          pol \in RegistryPolicies, q \in Quantities :
          AddItem(t, n, name, pol[1], pol[2], q)
    \/ \E t \in Tugboats, n \in ItemNumbers, q \in Quantities : RemoveItem(t, n, q)
    \/ \E t \in Tugboats : GetInventory(t)
    \/ ListAllInventories

SpecViews == Init /\ [][NextViews]_vars

\* one free-standing item of either class
InitItem ==
    /\ inventory = <<>>
    /\ \E n \in ItemNumbers, name \in ItemNames, pol \in StockPolicies,
          q \in Quantities :
          \/ stock = InventoryItem(n, name, pol[1], pol[2], q)
          \/ stock = manager_InventoryItem(n, name, pol[1], pol[2], q)
    /\ now = 0
    /\ ticket = NoTicket
    /\ last = Out("InventoryItem", <<>>)
    /\ episode = Track(<<>>, <<>>, FALSE, <<>>)
    /\ safety = NoSafetyTicket
    /\ returned = NoReturn
    /\ audit_log = <<>>
    /\ conn = <<>>
    /\ removals = NoRemovals(stock)

ItemAdd(q) ==
    /\ add(stock, q).quantity <= MaxQuantity
    /\ stock' = add(stock, q)
    /\ last' = Out("add", add_printed(stock, q))
    /\ removals' = NoRemovals(stock')
    /\ UNCHANGED <<conn, returned, audit_log, safety, inventory, now, ticket, episode>>

ItemRemove(q) ==
    /\ Len(remove(stock, q, now).usage_history) <= MaxItemRecords
    /\ q >= 0 => removals.calls < MaxCalls
    /\ stock' = remove(stock, q, now)
    /\ last' = Out("remove", remove_printed(stock, q))
    /\ removals' = Removed(removals, stock, q, stock')
    /\ UNCHANGED <<conn, returned, audit_log, safety, inventory, now, ticket, episode>>

CheckReorder ==
    /\ returned' = [NoReturn EXCEPT !.op = "check_reorder",
                                    !.flag = check_reorder(stock)]
    /\ last' = Out("check_reorder", <<>>)
    /\ UNCHANGED <<conn, removals, audit_log, safety, inventory, stock, now, ticket, episode>>

NextItem ==
    \/ Tick
    \/ CheckReorder
    \/ \E q \in Quantities : ItemAdd(q)
    \/ \E q \in Quantities : ItemRemove(q)

SpecItem == InitItem /\ [][NextItem]_vars

\* the registry of one tugboat with its removals, the alert scan and the
\* maintenance ticket, on a running clock
NextHistory ==
    \/ Tick
    \/ AddTugboat("T1")
    \/ \E name \in ItemNames, pol \in RegistryPolicies, q \in TicketQuantities :
          AddItem("T1", "A1", name, pol[1], pol[2], q)
    \/ \E name \in ItemNames, pol \in RegistryPolicies, q \in TicketQuantities :
          LoadItem("T1", "B2", name, pol[1], pol[2], q)
    \/ \E n \in ItemNumbers, q \in Quantities : RemoveItem("T1", n, q)
    \/ Scan
    \/ \E r \in RequiredItemsChoices : Len(r) <= 1 /\ NewTicket(r)
    \/ CompleteTicket("T1")

SpecHistory == Init /\ [][NextHistory]_vars

\* two tugboats that hold the item of one number, with the removals, the
\* alert scan and the maintenance ticket
NextVessels ==
    \/ \E t \in Tugboats : AddTugboat(t)
    \/ \E t \in Tugboats, name \in ItemNames, pol \in RegistryPolicies,
          q \in TicketQuantities : AddItem(t, "A1", name, pol[1], pol[2], q)
    \/ \E t \in Tugboats, name \in ItemNames, pol \in RegistryPolicies,
          q \in TicketQuantities : LoadItem(t, "A1", name, pol[1], pol[2], q)
    \/ \E t \in Tugboats, q \in Quantities : RemoveItem(t, "A1", q)
    \/ Scan
    \/ \E r \in RequiredItemsChoices : Len(r) <= 1 /\ NewTicket(r)
    \/ \E t \in Tugboats : CompleteTicket(t)

SpecVessels == Init /\ [][NextVessels]_vars

\* one free-standing item with a unit cost and an expiry date, and a clock
\* that is read at the instants of Instants
InitUsage ==
    /\ inventory = <<>>
    /\ \E n \in {"A1"}, name \in ItemNames, q \in CostStock, c \in Costs,
          e \in ExpiryDates :
          \/ stock = Costed(InventoryItem(n, name, 1, 0, q), c, e)
          \/ stock = Costed(manager_InventoryItem(n, name, 1, 0, q), c, e)
    /\ now = 0
    /\ ticket = NoTicket
    /\ last = Out("InventoryItem", <<>>)
    /\ episode = Track(<<>>, <<>>, FALSE, <<>>)
    /\ safety = NoSafetyTicket
    /\ returned = NoReturn
    /\ audit_log = <<>>
    /\ conn = <<>>
    /\ removals = NoRemovals(stock)

Elapse(t) ==
    /\ t > now
    /\ now' = t
    /\ last' = Out("clock", <<>>)
    /\ returned' = NoReturn
    /\ UNCHANGED <<conn, removals, audit_log, safety, inventory, stock, ticket, episode>>

GetUsageCost(period) ==
    /\ returned' = [NoReturn EXCEPT !.op = "get_usage_cost", !.arg = period,
                                    !.number = get_usage_cost(stock, period, now)]
    /\ last' = Out("get_usage_cost", get_usage_cost_printed(period))
    /\ UNCHANGED <<conn, removals, audit_log, safety, inventory, stock, now, ticket, episode>>

IsExpired ==
    /\ returned' = [NoReturn EXCEPT !.op = "is_expired",
                                    !.flag = is_expired(stock, now)]
    /\ last' = Out("is_expired", <<>>)
    /\ UNCHANGED <<conn, removals, audit_log, safety, inventory, stock, now, ticket, episode>>

AddMaintenanceRecord(record) ==
    /\ Len(stock.maintenance_records) < MaxMaintenance
    /\ stock' = add_maintenance_record(stock, record)
    /\ last' = Out("add_maintenance_record", <<>>)
    /\ returned' = NoReturn
    /\ UNCHANGED <<conn, removals, audit_log, safety, inventory, now, ticket, episode>>

NextUsage ==
    \/ \E t \in Instants : Elapse(t)
    \/ \E q \in CostQuantities : ItemRemove(q)
    \/ \E period \in PeriodArguments : GetUsageCost(period)
    \/ IsExpired
    \/ \E record \in MaintenanceRecords : AddMaintenanceRecord(record)

SpecUsage == InitUsage /\ [][NextUsage]_vars

GetActiveAlerts ==
    /\ last' = [Out("get_active_alerts", <<>>)
                   EXCEPT !.alerts = get_active_alerts(inventory)]
    /\ returned' = NoReturn
    /\ UNCHANGED <<conn, removals, audit_log, safety, inventory, stock, now, ticket, episode>>

\* one free-standing item next to the registry of one tugboat, the alert
\* scan, a maintenance ticket for one A1 and a safety ticket
InitFrame ==
    /\ inventory = <<>>
    /\ stock = Costed(InventoryItem("A1", "Oil", 1, 0, 1), 10, <<>>)
    /\ now = 0
    /\ ticket = MaintenanceTicket(<<<<"A1", 1>>>>)
    /\ last = Out("init", <<>>)
    /\ episode = Track(<<>>, <<>>, FALSE, <<>>)
    /\ safety = SafetyTicket
    /\ returned = NoReturn
    /\ audit_log = <<>>
    /\ conn = <<>>
    /\ removals = NoRemovals(stock)

NextFrame ==
    \/ ItemAdd(1)
    \/ ItemRemove(1)
    \/ CheckReorder
    \/ GetUsageCost("monthly")
    \/ IsExpired
    \/ \E record \in MaintenanceRecords : AddMaintenanceRecord(record)
    \/ AddTugboat("T1")
    \/ \E name \in ItemNames, pol \in RegistryPolicies :
          AddItem("T1", "A1", name, pol[1], pol[2], 1)
             /\ ItemCount(inventory') <= MaxNoteItems
    \/ \E name \in ItemNames, pol \in RegistryPolicies :
          LoadItem("T1", "B2", name, pol[1], pol[2], 1)
             /\ ItemCount(inventory') <= MaxNoteItems
    \/ \E n \in ItemNumbers : RemoveItem("T1", n, 1)
    \/ Scan
    \/ GetActiveAlerts
    \/ GetInventory("T1")
    \/ ListAllInventories
    \/ ticket.comments = <<>> /\ AddComment("c1")
    \/ CompleteTicket("T1")
    \/ safety.documentation = <<>> /\ AddDocumentation("d1")
    \/ SafetyComplete

SpecFrame == InitFrame /\ [][NextFrame]_vars

LogEvent(user, action, details) ==
    /\ Len(audit_log) < MaxEvents
    /\ audit_log' = log_event(audit_log, user, action, details, now)
    /\ last' = Out("log_event", <<"Audit Log Event:">>)
    /\ UNCHANGED <<conn, removals, returned, safety, inventory, stock, now, ticket, episode>>

GetAuditLog ==
    /\ returned' = [NoReturn EXCEPT !.op = "get_audit_log", !.ref = TheAuditLog]
    /\ last' = Out("get_audit_log", <<>>)
    /\ UNCHANGED <<conn, removals, audit_log, safety, inventory, stock, now, ticket, episode>>

\* the audit log next to the registry of one tugboat, on a running clock
NextAudit ==
    \/ Tick
    \/ \E user \in AuditUsers, action \in AuditActions, details \in AuditDetails :
          LogEvent(user, action, details)
    \/ GetAuditLog
    \/ AddTugboat("T1")
    \/ \E name \in ItemNames, pol \in RegistryPolicies :
          AddItem("T1", "A1", name, pol[1], pol[2], 1)
    \/ RemoveItem("T1", "A1", 1)

SpecAudit == Init /\ [][NextAudit]_vars

\* one free-standing item, saved under the names of the tugboats and loaded
InitStorage ==
    /\ inventory = <<>>
    /\ \E e \in ExpiryDates, d \in DocumentLists :
          \/ stock = Documented(Costed(InventoryItem("A1", "Oil", 1, 0, 1), 10, e), d)
          \/ stock = Documented(Costed(manager_InventoryItem("A1", "Oil", 1, 0, 1), 10, e), d)
    /\ now = 0
    /\ ticket = NoTicket
    /\ last = Out("InventoryItem", <<>>)
    /\ episode = Track(<<>>, <<>>, FALSE, <<>>)
    /\ safety = NoSafetyTicket
    /\ returned = NoReturn
    /\ audit_log = <<>>
    /\ conn = <<>>
    /\ removals = NoRemovals(stock)

SaveInventoryItem(tugboat_name) ==
    /\ conn' = save_inventory_item(conn, tugboat_name, stock)
    /\ last' = [Out("save_inventory_item", <<>>)
                   EXCEPT !.raised = save_inventory_item_raises(stock)]
    /\ returned' = NoReturn
    /\ UNCHANGED <<removals, audit_log, safety, inventory, stock, now, ticket, episode>>

GetInventoryItems(tugboat_name) ==
    /\ returned' = [NoReturn EXCEPT !.op = "get_inventory_items",
                                    !.arg = tugboat_name,
                                    !.ref = Fresh(get_inventory_items(conn, tugboat_name))]
    /\ last' = Out("get_inventory_items", <<>>)
    /\ UNCHANGED <<conn, removals, audit_log, safety, inventory, stock, now, ticket, episode>>

NextStorage ==
    \/ ItemAdd(1)
    \/ ItemRemove(1)
    \/ \E record \in MaintenanceRecords : AddMaintenanceRecord(record)
    \/ \E t \in Tugboats : SaveInventoryItem(t)
    \/ \E t \in Tugboats : GetInventoryItems(t)

SpecStorage == InitStorage /\ [][NextStorage]_vars

\* ================================================================= claims
ItemsOf(inv) == {ItemAt(inv, p) : p \in PairSet(inv)}

\* the set of the elements of a sequence
Range(s) == {s[i] : i \in 1..Len(s)}

\* a line of a ticket that remove_item cannot deduct on that tugboat
LineFails(inv, tugboat_name, line) ==
    \/ ~Has(inv, tugboat_name)
    \/ ~Has(get_inventory(inv, tugboat_name), line[1])
    \/ Get(get_inventory(inv, tugboat_name), line[1]).quantity < line[2]

\* C1: in every reachable state, after any sequence of add_tugboat, add_item,
\* add, remove, remove_item and complete_ticket calls with arbitrary integer
\* quantities, every item of every tugboat has quantity >= 0.
C1_QuantityNeverNegative ==
    \A it \in ItemsOf(inventory) : it.quantity >= 0

\* C2: remove(q) on an item whose on-hand quantity is less than q has no
\* effect: quantity, usage_history and alert_active (and every other field)
\* are the same before and after the call.
C2_RemoveShortHasNoEffect ==
    [][\A q \in Quantities :
          (ItemRemove(q) /\ stock.quantity < q) => stock' = stock]_vars

\* a remove was just refused for lack of stock, on an item with a history
C2_Witness ==
    /\ last.op = "remove"
    /\ last.printed = <<"Not enough in stock.">>
    /\ stock.usage_history # <<>>

\* C3: remove(q) with 0 <= q <= quantity decreases quantity by exactly q and
\* appends exactly one record at the end of usage_history, whose quantity is q
\* and whose timestamp is the current time; no other field changes.
C3_RemoveDeductsAndRecords ==
    [][\A q \in Quantities :
          (ItemRemove(q) /\ 0 <= q /\ q <= stock.quantity) =>
             /\ stock'.quantity = stock.quantity - q
             /\ Len(stock'.usage_history) = Len(stock.usage_history) + 1
             /\ SubSeq(stock'.usage_history, 1, Len(stock.usage_history))
                   = stock.usage_history
             /\ stock'.usage_history[Len(stock'.usage_history)]
                   = [timestamp |-> now, quantity |-> q]
             /\ [stock' EXCEPT !.quantity = stock.quantity,
                               !.usage_history = stock.usage_history] = stock]_vars

\* a remove has just succeeded on an item that already had a record, later
\* than that record
C3_Witness ==
    /\ last.op = "remove"
    /\ last.printed = <<>>
    /\ Len(stock.usage_history) = 2
    /\ stock.usage_history[2].timestamp = now
    /\ stock.usage_history[1].timestamp < now
    /\ stock.usage_history[2].quantity > 0

\* C4: add(q) with q >= 0 increases quantity by exactly q and leaves
\* usage_history (and every other field) unchanged; add(q) with q < 0 is
\* refused ("Cannot add a negative quantity.") and leaves the item unchanged.
C4_AddIncreasesOrRefuses ==
    [][\A q \in Quantities :
          ItemAdd(q) =>
             IF q >= 0
             THEN /\ stock'.quantity = stock.quantity + q
                  /\ stock'.usage_history = stock.usage_history
                  /\ [stock' EXCEPT !.quantity = stock.quantity] = stock
                  /\ last'.printed = <<>>
             ELSE /\ stock' = stock
                  /\ last'.printed = <<"Cannot add a negative quantity.">>]_vars

\* an add has just been refused, on an item that holds stock and a history
C4_Witness ==
    /\ last.op = "add"
    /\ last.printed = <<"Cannot add a negative quantity.">>
    /\ stock.quantity > 0
    /\ stock.usage_history # <<>>

\* C5: during a scan an item causes a notification if and only if
\* check_reorder() is true and alert_active is not set when it is visited; it
\* then gets exactly one e-mail and has alert_active set afterwards; no other
\* item gets an e-mail.
C5_NotifiedIffBelowAndNotActive ==
    [][Scan =>
          \A p \in PairSet(inventory) :
             IF check_reorder(ItemAt(inventory, p))
                /\ ~ItemAt(inventory, p).alert_active
             THEN /\ Count(last'.sent, p) = 1
                  /\ ItemAt(inventory', p).alert_active
             ELSE Count(last'.sent, p) = 0]_vars

C7_ExactlyOnePerEpisode ==
    \A p \in DOMAIN episode : episode[p].scanned => episode[p].sent = 1

\* C8: a scan clears alert_active, without an e-mail, of an item that has it
\* set and is above its threshold; and it sends exactly one e-mail for an item
\* whose alert_active is cleared and that is at or below its threshold.
C8_ScanResetsThenAlertsAgain ==
    [][Scan =>
          \A p \in PairSet(inventory) :
             /\ (ItemAt(inventory, p).alert_active
                 /\ ~check_reorder(ItemAt(inventory, p)))
                => /\ ~ItemAt(inventory', p).alert_active
                   /\ Count(last'.sent, p) = 0
             /\ (ItemAt(inventory, p).has_alert_active
                 /\ ~ItemAt(inventory, p).alert_active
                 /\ check_reorder(ItemAt(inventory, p)))
                => Count(last'.sent, p) = 1]_vars

\* C9: a scan returns exactly the (tugboat, item) pairs whose check_reorder()
\* is true at the time of the scan, each of them once.
C9_ScanReturnsTheItemsBelow ==
    [][Scan =>
          /\ ~last'.raised
          /\ Range(last'.alerts)
                = {p \in PairSet(inventory) : check_reorder(ItemAt(inventory, p))}
          /\ \A p \in Range(last'.alerts) : Count(last'.alerts, p) = 1]_vars

\* C10: complete_ticket leaves completed false when a required line cannot
\* be removed (stock too low, unknown item or unknown tugboat).
C10_NotCompletedWhenALineFails ==
    [][\A t \in Tugboats :
          (CompleteTicket(t)
           /\ \E i \in 1..Len(ticket.required_items) :
                 LineFails(inventory, t, ticket.required_items[i]))
          => ~ticket'.completed]_vars

\* C11: complete_ticket on a ticket that is already completed deducts
\* nothing: every item's quantity and usage_history stay as they were, so the
\* required items of a ticket are deducted at most once.
C11_CompletedTicketDeductsNothing ==
    [][\A t \in Tugboats :
          (CompleteTicket(t) /\ ticket.completed) => inventory' = inventory]_vars

\* what remove_item prints for a line of a ticket
LineMessage(inv, tugboat_name, line) ==
    remove_item_printed(inv, tugboat_name, line[1], line[2])

\* C12: complete_ticket does not roll back and works through required_items
\* in insertion order: when a line fails, every line before it that had
\* enough stock stays deducted (quantity reduced by its amount, one usage
\* record of that amount appended), and the refusals are printed in the
\* order of the lines.
C12_NoRollbackInInsertionOrder ==
    [][\A t \in Tugboats :
          CompleteTicket(t) =>
             LET lines  == ticket.required_items
                 failed == {i \in 1..Len(lines) : LineFails(inventory, t, lines[i])}
             IN  /\ \A i \in 1..Len(lines) :
                       (i \notin failed /\ \E j \in failed : j > i) =>
                          LET before == Get(Get(inventory, t), lines[i][1])
                              after  == Get(Get(inventory', t), lines[i][1])
                          IN  /\ after.quantity = before.quantity - lines[i][2]
                              /\ after.usage_history
                                    = Append(before.usage_history,
                                             [timestamp |-> now,
                                              quantity |-> lines[i][2]])
                 /\ Len(last'.printed) = Cardinality(failed) + 1
                 /\ \A i \in failed :
                       <<last'.printed[Cardinality({j \in failed : j <= i})]>>
                          = LineMessage(inventory, t, lines[i])]_vars

\* a ticket of two lines was just worked on a tugboat: the first line is
\* deducted and recorded, the second was refused for lack of stock
C12_Witness ==
    /\ last.op = "complete_ticket"
    /\ Len(ticket.required_items) = 2
    /\ last.printed = <<"Not enough in stock.",
                        "Maintenance ticket has been completed.">>
    /\ \E t \in Tugboats :
          /\ Has(inventory, t)
          /\ Has(Get(inventory, t), ticket.required_items[1][1])
          /\ Has(Get(inventory, t), ticket.required_items[2][1])
          /\ Get(Get(inventory, t), ticket.required_items[1][1]).usage_history
                = <<[timestamp |-> now, quantity |-> ticket.required_items[1][2]]>>
          /\ Get(Get(inventory, t), ticket.required_items[2][1]).usage_history = <<>>
          /\ Get(Get(inventory, t), ticket.required_items[2][1]).quantity
                < ticket.required_items[2][2]

\* C13: complete_ticket on a pending ticket whose every required item is on
\* the tugboat with at least the required quantity: each required item loses
\* exactly its required amount and gains exactly one usage record of that
\* amount, every other item and tugboat is unchanged, and completed becomes
\* true.
C13_FulfilmentDeductsEveryLine ==
    [][\A t \in Tugboats :
          (CompleteTicket(t)
           /\ ~ticket.completed
           /\ \A i \in 1..Len(ticket.required_items) :
                 ~LineFails(inventory, t, ticket.required_items[i]))
          => LET lines == ticket.required_items
                 named == {<<t, lines[i][1]>> : i \in 1..Len(lines)}
             IN  /\ ticket'.completed
                 /\ [ticket' EXCEPT !.completed = FALSE] = ticket
                 /\ Pairs(inventory') = Pairs(inventory)
                 /\ Keys(inventory') = Keys(inventory)
                 /\ \A p \in PairSet(inventory) \ named :
                       ItemAt(inventory', p) = ItemAt(inventory, p)
                 /\ \A i \in 1..Len(lines) :
                       LET before == ItemAt(inventory, <<t, lines[i][1]>>)
                           after  == ItemAt(inventory', <<t, lines[i][1]>>)
                       IN  /\ after.quantity = before.quantity - lines[i][2]
                           /\ after.usage_history
                                 = Append(before.usage_history,
                                          [timestamp |-> now,
                                           quantity |-> lines[i][2]])
                           /\ [after EXCEPT !.quantity = before.quantity,
                                            !.usage_history = before.usage_history]
                                 = before]_vars

\* a ticket of two lines has just been fulfilled without a refusal
C13_Witness ==
    /\ last.op = "complete_ticket"
    /\ last.printed = <<"Maintenance ticket has been completed.">>
    /\ Len(ticket.required_items) = 2
    /\ ticket.completed
    /\ Records(inventory) = 2

\* C14: ticket completion is monotonic: once completed is true on a
\* maintenance or a safety ticket, no operation (completion, add_comment,
\* add_documentation, registry calls) makes it false again.
C14_CompletedIsMonotonic ==
    [][/\ ticket.completed => ticket'.completed
       /\ safety.completed => safety'.completed]_vars

\* both tickets are completed, and the maintenance ticket has been completed a
\* second time (its single line is deducted twice)
C14_Witness ==
    /\ ticket.completed
    /\ safety.completed
    /\ last.op = "complete_ticket"
    /\ Len(ticket.required_items) = 1
    /\ Records(inventory) = 2

\* C15: SafetyTicket.complete_ticket on a pending ticket sets completed and
\* changes nothing in the registry; on a completed ticket it fails
\* (AlreadyCompleted): it raises, so that the caller can tell it from a
\* successful completion, and changes nothing.
C15_SafetyCompletionOnceOnly ==
    [][SafetyComplete =>
          IF ~safety.completed
          THEN /\ safety'.completed
               /\ inventory' = inventory
               /\ ~last'.raised
          ELSE /\ last'.raised
               /\ safety' = safety
               /\ inventory' = inventory]_vars

\* C16: add_comment and add_documentation are append-only and work in every
\* ticket state: each call, before or after completion, appends exactly one
\* entry at the end, keeps the earlier entries in their order, and changes
\* neither completed nor required_items.
C16_NotesAreAppendOnly ==
    [][/\ \A c \in Comments :
             AddComment(c) =>
                /\ Len(ticket'.comments) = Len(ticket.comments) + 1
                /\ SubSeq(ticket'.comments, 1, Len(ticket.comments)) = ticket.comments
                /\ ticket'.comments[Len(ticket'.comments)] = c
                /\ ticket'.completed = ticket.completed
                /\ ticket'.required_items = ticket.required_items
       /\ \A d \in Documents :
             AddDocumentation(d) =>
                /\ Len(safety'.documentation) = Len(safety.documentation) + 1
                /\ SubSeq(safety'.documentation, 1, Len(safety.documentation))
                      = safety.documentation
                /\ safety'.documentation[Len(safety'.documentation)] = d
                /\ safety'.completed = safety.completed]_vars

\* a second, different comment was just written on a completed maintenance
\* ticket, and the safety ticket is completed and holds two documents
C16_Witness ==
    /\ last.op = "add_comment"
    /\ ticket.completed
    /\ Len(ticket.comments) = 2
    /\ ticket.comments[1] # ticket.comments[2]
    /\ safety.completed
    /\ Len(safety.documentation) = 2
    /\ safety.documentation[1] # safety.documentation[2]

\* C17: a call that names an unregistered tugboat (add_item, remove_item,
\* get_inventory) or an unknown item (remove_item) creates no state: after it
\* the registered tugboats, the item numbers of each and every field of every
\* item are as before (no such call is a step that changes the registry);
\* get_inventory hands out an empty map.
C17_UnknownNamesCreateNothing ==
    [][/\ inventory' # inventory =>
             /\ \A t \in Tugboats, n \in ItemNumbers, name \in RegistryNames,
                  pol \in RegistryPolicies, q \in RegistryQuantities :
                   ~Has(inventory, t)
                   => ~CallAddItem(t, n, name, pol[1], pol[2], q)
             /\ \A t \in Tugboats, n \in ItemNumbers, q \in RegistryQuantities :
                   (~Has(inventory, t) \/ ~Has(get_inventory(inventory, t), n))
                   => ~CallRemoveItem(t, n, q)
             /\ \A t \in Tugboats :
                   ~Has(inventory, t) => ~CallGetInventory(t)
       /\ \A t \in Tugboats :
             ~Has(inventory, t) => get_inventory(inventory, t) = <<>>]_vars

\* add_item was just refused for an unregistered tugboat, on a registry that
\* holds a tugboat with an item
C17_Witness ==
    /\ last.op = "add_item"
    /\ last.printed = <<"Tugboat not found.">>
    /\ Len(inventory) = 1
    /\ ItemCount(inventory) >= 1

\* the outcome the caller of remove_item is to be given
RemoveOutcome(inv, tugboat_name, item_number, quantity) ==
    IF ~Has(inv, tugboat_name) THEN "UnknownVessel"
    ELSE IF ~Has(Get(inv, tugboat_name), item_number) THEN "UnknownItem"
    ELSE IF quantity < 0 THEN "InvalidQuantity"
    ELSE IF Get(Get(inv, tugboat_name), item_number).quantity < quantity
         THEN "InsufficientStock"
         ELSE "None"

\* C18: remove_item reports its outcome to the caller: a call that fails
\* hands back (returns or raises) UnknownVessel, UnknownItem, InvalidQuantity
\* or InsufficientStock according to its cause, so that the caller can tell
\* each failure from success and from the other failures.
C18_RemoveItemReportsItsOutcome ==
    [][\A t \in Tugboats, n \in ItemNumbers, q \in RegistryQuantities :
          (remove_item_returned(inventory, t, n, q) # RemoveOutcome(inventory, t, n, q))
          => ~CallRemoveItem(t, n, q)]_vars

\* C19: add_tugboat with a name not yet registered creates an empty item map
\* for it and leaves every other tugboat unchanged; with a registered name it
\* is refused ("already exists") and the registry, the items of that tugboat
\* and their quantities included, stays as it is (the map is never reset).
C19_AddTugboatCreatesOrRefuses ==
    [][\A t \in Tugboats :
          CallAddTugboat(t) =>
             IF ~Has(inventory, t)
             THEN /\ inventory' = Append(inventory, <<t, <<>>>>)
                  /\ last'.printed = <<>>
             ELSE /\ inventory' = inventory
                  /\ last'.printed = <<"Tugboat already exists.">>]_vars

\* add_tugboat was just refused, and every registered tugboat holds an item
C19_Witness ==
    /\ last.op = "add_tugboat"
    /\ last.printed = <<"Tugboat already exists.">>
    /\ Len(inventory) >= 1
    /\ \A i \in 1..Len(inventory) : inventory[i][2] # <<>>

\* the registry after add_item on a registered tugboat, as C20 describes it:
\* an existing item gains the quantity and keeps everything else, a new item
\* is created with the attributes and the quantity supplied
Upserted(inv, t, n, name, ms, ss, q) ==
    IF Has(Get(inv, t), n)
    THEN Put(inv, t, Put(Get(inv, t), n,
                         [Get(Get(inv, t), n) EXCEPT !.quantity = @ + q]))
    ELSE Put(inv, t, Append(Get(inv, t),
                            <<n, manager_InventoryItem(n, name, ms, ss, q)>>))

\* C20: add_item on a registered tugboat: when the item number exists, the
\* only change is that the quantity of that item grows by the quantity
\* supplied, whatever attributes are passed; when it is new, an item with the
\* attributes and the quantity supplied is created under that key.
C20_UpsertAddsTheQuantity ==
    [][last'.op = "add_item" =>
          \A t \in Tugboats, n \in ItemNumbers, name \in RegistryNames,
             pol \in RegistryPolicies, q \in RegistryQuantities :
             (Has(inventory, t) /\ CallAddItem(t, n, name, pol[1], pol[2], q))
             => inventory' = Upserted(inventory, t, n, name, pol[1], pol[2], q)]_vars

\* C20 as amended: as above for a supplied quantity >= 0; a negative quantity
\* supplied for an existing item is refused ("Cannot add a negative
\* quantity.") and changes nothing.
C20_UpsertAddsOrRefuses ==
    [][last'.op = "add_item" =>
          \A t \in Tugboats, n \in ItemNumbers, name \in RegistryNames,
             pol \in RegistryPolicies, q \in RegistryQuantities :
             (Has(inventory, t) /\ CallAddItem(t, n, name, pol[1], pol[2], q))
             => IF Has(Get(inventory, t), n) /\ q < 0
                THEN /\ inventory' = inventory
                     /\ last'.printed = <<"Cannot add a negative quantity.">>
                ELSE /\ inventory' = Upserted(inventory, t, n, name, pol[1], pol[2], q)
                     /\ last'.printed = <<>>]_vars

\* add_item has just run without a refusal on a registry of two items, one
\* of which was restocked to the full after a removal
C20_Witness ==
    /\ last.op = "add_item"
    /\ last.printed = <<>>
    /\ ItemCount(inventory) = 2
    /\ \E p \in PairSet(inventory) :
          /\ ItemAt(inventory, p).name = "Oil"
          /\ ItemAt(inventory, p).quantity = MaxQuantity
          /\ ItemAt(inventory, p).usage_history # <<>>

\* C21: get_inventory changes no state; for a registered tugboat it hands out
\* the live item map of that tugboat (at the call, and after every later call
\* on the registry, the caller sees through it the current items of the
\* tugboat); for an unregistered tugboat it hands out an empty map and does
\* not register the tugboat.
C21_GetInventoryIsLive ==
    [][/\ \A t \in Tugboats :
             GetInventory(t) =>
                /\ inventory' = inventory
                /\ IF Has(inventory, t)
                   THEN Deref(inventory', returned'.ref) = Get(inventory, t)
                   ELSE /\ Deref(inventory', returned'.ref) = <<>>
                        /\ ~Has(inventory', t)
       /\ (returned.op = "get_inventory" /\ returned.known /\ returned' = returned)
          => Deref(inventory', returned.ref) = Get(inventory', returned.arg)]_vars

\* a map was handed out for a registered tugboat, the registry was called
\* since, and the map shows an item that has a usage record
C21_Witness ==
    /\ returned.op = "get_inventory"
    /\ returned.known
    /\ last.op = "call"
    /\ \E i \in 1..Len(Deref(inventory, returned.ref)) :
          Deref(inventory, returned.ref)[i][2].usage_history # <<>>

\* C22: list_all_inventories hands out a full snapshot: at the call its keys
\* are the registered tugboats, each with the items it holds then, and no
\* later add_tugboat, add_item or remove_item alters the mapping handed out.
C22_ListAllIsASnapshot ==
    [][/\ ListAllInventories =>
             /\ inventory' = inventory
             /\ Deref(inventory', returned'.ref) = inventory
       /\ (returned.op = "list_all_inventories" /\ returned' = returned)
          => Deref(inventory', returned.ref) = Deref(inventory, returned.ref)]_vars

\* C23: check_reorder returns true exactly when quantity <= min_stock +
\* safety_stock (true at equality) and is pure: the call changes no field of
\* the item, alert_active included.
C23_CheckReorderIsThePredicate ==
    [][CheckReorder =>
          /\ returned'.flag = (stock.quantity <= stock.min_stock + stock.safety_stock)
          /\ stock' = stock]_vars

\* check_reorder has just answered true for an item that stands exactly at
\* its threshold and has a usage record
C23_Witness ==
    /\ last.op = "check_reorder"
    /\ returned.flag
    /\ stock.quantity = stock.min_stock + stock.safety_stock
    /\ stock.usage_history # <<>>

\* C24: add(0) and remove(0) change nothing on any item in any state: the
\* quantity is unchanged and usage_history has the same length and content
\* afterwards (remove(0) appends no record).
C24_ZeroAmountsChangeNothing ==
    [][/\ ItemAdd(0) => stock' = stock
       /\ ItemRemove(0) => stock' = stock]_vars

\* C25: when the amounts asked for by a run of remove calls on an item add up
\* to more than it held, at least one call was refused and the quantity at
\* the end of the run is the quantity the item had just before the first
\* refused call.
C25_QuantityStaysAsBeforeFirstRefusal ==
    (removals.calls >= 1 /\ removals.asked > removals.start)
    => /\ removals.refused >= 1
       /\ stock.quantity = removals.before

\* C25 as amended: in such a run at least one call was refused; every
\* refused call leaves the quantity as it was, so that the quantity at the
\* end is the quantity at the start less the amounts of the calls that were
\* served, and is not negative when the run started with a quantity >= 0.
C25_OnlyServedAmountsAreDeducted ==
    /\ (removals.calls >= 1 /\ removals.asked > removals.start)
       => removals.refused >= 1
    /\ stock.quantity = removals.start - removals.taken
    /\ removals.start >= 0 => stock.quantity >= 0

\* a call was refused for lack of stock and a later call of the run was
\* served: the quantity is below what it was before the refusal
C25_Witness ==
    /\ removals.asked > removals.start
    /\ removals.refused >= 1
    /\ removals.taken >= 1
    /\ stock.quantity < removals.before
    /\ last.op = "remove"
    /\ last.printed = <<>>

\* the sum of f over the finite set S of its arguments
RECURSIVE SumOf(_, _)
SumOf(S, f) ==
    IF S = {} THEN 0
    ELSE LET x == CHOOSE y \in S : TRUE IN f[x] + SumOf(S \ {x}, f)

PeriodDays(period) ==
    CASE period = "monthly" -> 30
      [] period = "quarterly" -> 90
      [] period = "yearly" -> 365

\* the usage records of the item that are at most the given days old at t
UsageWithin(item, days, t) ==
    {i \in 1..Len(item.usage_history) :
        t - item.usage_history[i].timestamp <= days * 86400}

\* the records of the item, oldest first, as <<age in days, quantity>> at t
UsageAges(item, t) ==
    [i \in 1..Len(item.usage_history) |->
        <<t - item.usage_history[i].timestamp, item.usage_history[i].quantity>>]

\* C26: get_usage_cost for monthly (30 days), quarterly (90 days) and yearly
\* (365 days) returns the sum of record.quantity * cost over the usage
\* records whose age is at most the period, a record exactly as old as the
\* period included, and changes nothing of the item; with cost 10 and
\* removals of 2 five days ago and of 3 forty days ago the monthly cost is
\* 20 and the quarterly cost is 50.
C26_UsageCostSumsTheRecordsOfThePeriod ==
    [][/\ \A period \in {"monthly", "quarterly", "yearly"} :
             GetUsageCost(period) =>
                /\ returned'.number =
                      SumOf(UsageWithin(stock, PeriodDays(period), now),
                            [i \in 1..Len(stock.usage_history) |->
                                stock.usage_history[i].quantity * stock.cost])
                /\ stock' = stock
       /\ (/\ "cost" \in DOMAIN stock
           /\ stock.cost = 10
           /\ UsageAges(stock, now) = <<<<40 * 86400, 3>>, <<5 * 86400, 2>>>>)
          => /\ get_usage_cost(stock, "monthly", now) = 20
             /\ get_usage_cost(stock, "quarterly", now) = 50]_vars

\* the quarterly cost has just been computed as 50 for an item of cost 10
\* whose removal of 3 is exactly 90 days old
C26_Witness ==
    /\ last.op = "get_usage_cost"
    /\ returned.arg = "quarterly"
    /\ returned.number = 50
    /\ stock.cost = 10
    /\ Len(stock.usage_history) = 2
    /\ now - stock.usage_history[1].timestamp = 90 * 86400
    /\ stock.usage_history[1].quantity = 3

\* C27: get_usage_cost with a period that is none of monthly, quarterly and
\* yearly fails with an error, which tells the call apart from one that
\* found a cost of 0, and leaves the item unchanged.
C27_InvalidPeriodIsAnError ==
    [][\A period \in PeriodArguments :
          (GetUsageCost(period) /\ ~(period \in {"monthly", "quarterly", "yearly"}))
          => /\ last'.raised
             /\ stock' = stock]_vars

\* the sum of the quantities of the records i..Len(h) of a usage history
RECURSIVE RecordedFrom(_, _)
RecordedFrom(h, i) ==
    IF i > Len(h) THEN 0 ELSE h[i].quantity + RecordedFrom(h, i + 1)

\* C28: the usage history of every item is append-only across the calls of
\* the registry, the tickets and the alert scan: the history before a call
\* is a prefix of the history after it; and records are added by removals
\* that were served only: the records a call adds carry the time of the call
\* and the quantity of the item went down by what they record.
C28_UsageHistoryIsAppendOnly ==
    [][\A p \in PairSet(inventory) :
          LET before == ItemAt(inventory, p).usage_history
              item == ItemAt(inventory', p)
              after == item.usage_history
          IN /\ p \in PairSet(inventory')
             /\ Len(before) <= Len(after)
             /\ SubSeq(after, 1, Len(before)) = before
             /\ \A i \in Len(before) + 1..Len(after) : after[i].timestamp = now
             /\ Len(after) > Len(before) =>
                   item.quantity = ItemAt(inventory, p).quantity
                                   - RecordedFrom(after, Len(before) + 1)]_vars

\* an item holds two usage records of different times, the later one added
\* by the completion of a ticket, and the scan has run over it since
C28_Witness ==
    \E p \in PairSet(inventory) :
        LET h == ItemAt(inventory, p).usage_history IN
        /\ Len(h) = 2
        /\ h[1].timestamp < h[2].timestamp
        /\ ticket.completed
        /\ last.op = "process_inventory_alerts"

\* every item there was keeps its quantity and its usage history in the step
SameStock ==
    /\ stock'.quantity = stock.quantity
    /\ stock'.usage_history = stock.usage_history
    /\ \A p \in PairSet(inventory) :
          /\ p \in PairSet(inventory')
          /\ ItemAt(inventory', p).quantity = ItemAt(inventory, p).quantity
          /\ ItemAt(inventory', p).usage_history = ItemAt(inventory, p).usage_history

\* C29: the quantity of an item changes through add and remove only, called
\* directly or by add_item, remove_item and the completion of a maintenance
\* ticket; the alert scan, get_active_alerts, check_reorder, get_usage_cost,
\* is_expired, add_maintenance_record, get_inventory, list_all_inventories,
\* add_tugboat, the completion of a safety ticket, add_comment and
\* add_documentation leave the quantity and the usage history of every item
\* as they were.
C29_OnlyAddAndRemoveChangeQuantities ==
    [][/\ \/ SameStock
          \/ ~(\/ Scan
               \/ GetActiveAlerts
               \/ CheckReorder
               \/ GetUsageCost("monthly")
               \/ IsExpired
               \/ \E record \in MaintenanceRecords : AddMaintenanceRecord(record)
               \/ GetInventory("T1")
               \/ ListAllInventories
               \/ AddTugboat("T1")
               \/ SafetyComplete
               \/ AddComment("c1")
               \/ AddDocumentation("d1"))
       /\ ~SameStock =>
             \/ ItemAdd(1)
             \/ ItemRemove(1)
             \/ \E name \in ItemNames, pol \in RegistryPolicies :
                   AddItem("T1", "A1", name, pol[1], pol[2], 1)
             \/ \E n \in ItemNumbers : RemoveItem("T1", n, 1)
             \/ CompleteTicket("T1")]_vars

\* a maintenance record has just been added to the free-standing item, which
\* has a usage record, while the registry holds an item that was removed
\* from and scanned, and both tickets are annotated and completed
C29_Witness ==
    /\ last.op = "add_maintenance_record"
    /\ stock.maintenance_records # <<>>
    /\ stock.usage_history # <<>>
    /\ \E p \in PairSet(inventory) :
          /\ ItemAt(inventory, p).usage_history # <<>>
          /\ ItemAt(inventory, p).alert_active
    /\ ticket.comments # <<>>
    /\ safety.completed
    /\ safety.documentation # <<>>

\* C30: the audit log is append-only: a call of log_event puts exactly one
\* event, made of the time of the call, the name and the role of the user
\* ("System" for both when there is no user), the action and the details, at
\* the end of the log, and no other call removes, moves or changes an event.
C30_AuditLogIsAppendOnly ==
    [][/\ audit_log' # audit_log =>
             \E user \in AuditUsers, action \in AuditActions, details \in AuditDetails :
                LogEvent(user, action, details)
       /\ \A user \in AuditUsers, action \in AuditActions, details \in AuditDetails :
             LogEvent(user, action, details) =>
                audit_log' = audit_log \o
                    <<[timestamp |-> ToString(now),
                       username |-> IF user.none THEN "System" ELSE user.username,
                       role |-> IF user.none THEN "System" ELSE user.role,
                       action |-> action,
                       details |-> details]>>]_vars

\* the log holds an event of a user followed by a later event of the system,
\* and the registry has been changed and the log read since
C30_Witness ==
    /\ Len(audit_log) = 2
    /\ audit_log[1].username = "alice"
    /\ audit_log[1].role = "admin"
    /\ audit_log[2].username = "System"
    /\ audit_log[2].role = "System"
    /\ audit_log[1].timestamp # audit_log[2].timestamp
    /\ inventory # <<>>
    /\ last.op = "get_audit_log"

\* the loaded dict d holds what the item holds: equal numbers, texts and
\* lists, 0 / 1 for the flag, and no expiry date on both sides (a date that
\* was set is loaded as the text of its day, which is no datetime)
SameFields(item, d) ==
    /\ d.item_number = item.item_number
    /\ d.name = item.name
    /\ d.min_stock = item.min_stock
    /\ d.safety_stock = item.safety_stock
    /\ d.cost = item.cost
    /\ d.quantity = item.quantity
    /\ d.usage_history = item.usage_history
    /\ d.maintenance_records = item.maintenance_records
    /\ d.documents = item.documents
    /\ d.alert_active = (IF item.alert_active THEN 1 ELSE 0)
    /\ item.expiry_date = <<>>
    /\ d.expiry_date = <<>>

\* C31: saving any item, with empty or non-empty usage history and documents
\* and with or without an expiry date, succeeds, and loading the items of
\* the tugboat then yields an item with the same field values and lists.
C31_SavedItemsLoadIdentical ==
    [][\A t \in Tugboats :
          SaveInventoryItem(t) =>
             /\ ~last'.raised
             /\ \E i \in 1..Len(get_inventory_items(conn', t)) :
                   SameFields(stock, get_inventory_items(conn', t)[i])]_vars

\* C32: is_expired returns false when the item has no expiry date, and
\* otherwise true exactly when the time of the call is after the expiry date
\* (false at the expiry date itself); it changes nothing of the item.
C32_ExpiredIffAfterTheDate ==
    [][IsExpired =>
          /\ returned'.flag = (/\ stock.expiry_date # <<>>
                               /\ ~(now <= stock.expiry_date[1]))
          /\ stock' = stock
          /\ now' = now]_vars

\* is_expired has just answered false at the very instant of the expiry date
\* of an item that has a usage record
C32_Witness ==
    /\ last.op = "is_expired"
    /\ returned.op = "is_expired"
    /\ ~returned.flag
    /\ stock.expiry_date = <<now>>
    /\ stock.usage_history # <<>>

\* what an item holds and what its usage history records, together
Total(item) == item.quantity + RecordedFrom(item.usage_history, 1)

\* C33: stock is conserved: the quantity of every item is its quantity at
\* creation plus the amounts of the restocks that were accepted less the
\* quantities of its usage records. Step by step: an item is created with an
\* empty usage history; afterwards the sum of its quantity and of its
\* recorded removals changes only in an add_item call of an amount >= 0 on
\* that item, and then by that amount; a refused add or remove, and every
\* other call, leaves the sum as it is.
C33_StockIsConserved ==
    [][/\ \A p \in PairSet(inventory') \ PairSet(inventory) :
             ItemAt(inventory', p).usage_history = <<>>
       /\ \A p \in PairSet(inventory) :
             /\ p \in PairSet(inventory')
             /\ \/ Total(ItemAt(inventory', p)) = Total(ItemAt(inventory, p))
                \/ \E name \in RegistryNames, pol \in RegistryPolicies,
                      q \in RegistryQuantities :
                      /\ q >= 0
                      /\ Total(ItemAt(inventory', p)) = Total(ItemAt(inventory, p)) + q
                      /\ CallAddItem(p[1], p[2], name, pol[1], pol[2], q)]_vars

\* an item that was removed from has just been restocked by add_item: its
\* quantity is what it was created with, less the removal, plus the restock
C33_Witness ==
    /\ last.op = "add_item"
    /\ last.printed = <<>>
    /\ \E p \in PairSet(inventory) :
          /\ ItemAt(inventory, p).usage_history # <<>>
          /\ ItemAt(inventory, p).usage_history[1].quantity >= 1
          /\ ItemAt(inventory, p).quantity = 2

\* C34: every item that add_item creates carries alert_active, False at
\* creation, so that process_inventory_alerts over a registry that was
\* filled through add_tugboat and add_item completes without raising.
C34_RegistryItemsCarryTheFlag ==
    [][/\ \A p \in PairSet(inventory') \ PairSet(inventory) :
             /\ ItemAt(inventory', p).has_alert_active
             /\ ~ItemAt(inventory', p).alert_active
       /\ Scan => ~last'.raised]_vars

\* the flag of the item says what check_reorder says
FlagMatches(item) == item.alert_active = check_reorder(item)

\* C35: right after a scan has returned (it did not raise), alert_active =
\* check_reorder() holds for every item of every tugboat; and the two come
\* apart only by a change of stock: a step that leaves the quantity of an
\* item as it was does not turn a flag that matched into one that does not.
C35_FlagsMatchAfterScan ==
    [][/\ (Scan /\ ~last'.raised) =>
             \A p \in PairSet(inventory') : FlagMatches(ItemAt(inventory', p))
       /\ \A p \in PairSet(inventory) :
             (/\ p \in PairSet(inventory')
              /\ ItemAt(inventory, p).has_alert_active
              /\ FlagMatches(ItemAt(inventory, p))
              /\ ItemAt(inventory', p).quantity = ItemAt(inventory, p).quantity)
             => FlagMatches(ItemAt(inventory', p))]_vars

\* a scan has just returned over two items: one at or below its threshold
\* and flagged, one that was removed from and is above it and not flagged
C35_Witness ==
    /\ last.op = "process_inventory_alerts"
    /\ ~last.raised
    /\ \E p, r \in PairSet(inventory) :
          /\ ItemAt(inventory, p).alert_active
          /\ check_reorder(ItemAt(inventory, p))
          /\ ~ItemAt(inventory, r).alert_active
          /\ ~check_reorder(ItemAt(inventory, r))
          /\ ItemAt(inventory, r).usage_history # <<>>

\* the entry of every tugboat other than u, with all its items, is after the
\* step what it was before
OthersKept(u) ==
    \A i \in 1..Len(inventory) :
        inventory[i][1] # u =>
            /\ i <= Len(inventory')
            /\ inventory'[i] = inventory[i]

\* C36: add_item, remove_item and the completion of a maintenance ticket on
\* one tugboat change items of that tugboat only: every item of every other
\* tugboat, also one with the same item number, keeps its quantity, its
\* usage history and its alert_active.
C36_OtherVesselsAreUntouched ==
    [][\A u \in Tugboats :
          \/ OthersKept(u)
          \/ ~(\/ \E name \in ItemNames, pol \in RegistryPolicies,
                     q \in TicketQuantities : AddItem(u, "A1", name, pol[1], pol[2], q)
               \/ \E q \in Quantities : RemoveItem(u, "A1", q)
               \/ CompleteTicket(u))]_vars

\* a ticket has just been completed on one tugboat and deducted from its
\* item, while the other tugboat holds the item of the same number, flagged
\* by a scan and with a usage record and a different quantity
C36_Witness ==
    /\ last.op = "complete_ticket"
    /\ ticket.completed
    /\ \E p, r \in PairSet(inventory) :
          /\ p[1] # r[1]
          /\ p[2] = r[2]
          /\ ItemAt(inventory, p).usage_history # <<>>
          /\ ItemAt(inventory, r).usage_history # <<>>
          /\ ItemAt(inventory, r).alert_active
          /\ ItemAt(inventory, p).quantity # ItemAt(inventory, r).quantity

\* C37: get_active_alerts is a read-only view of the alert state: in any
\* state it returns the (tugboat, item) pairs process_inventory_alerts would
\* return in that state, and it sends nothing and changes no alert_active.
C37_ActiveAlertsAreWhatTheScanReturns ==
    [][GetActiveAlerts =>
          /\ ~process_inventory_alerts(inventory).raised
          /\ last'.alerts = process_inventory_alerts(inventory).alerts
          /\ last'.sent = <<>>
          /\ inventory' = inventory]_vars

\* the cost of the usage records of the item that are less than 30 days old
YoungUsageCost(item, t) ==
    SumOf({i \in 1..Len(item.usage_history) :
              t - item.usage_history[i].timestamp < 30 * 86400},
          [i \in 1..Len(item.usage_history) |->
              item.usage_history[i].quantity * item.cost])

\* C38: the windows of the usage cost are nested: for an item of cost >= 0,
\* at any one instant the monthly cost is at most the quarterly cost, which
\* is at most the yearly cost, and a record less than 30 days old is counted
\* in all three.
C38_UsageCostWindowsAreNested ==
    stock.cost >= 0 =>
        /\ get_usage_cost(stock, "monthly", now) <= get_usage_cost(stock, "quarterly", now)
        /\ get_usage_cost(stock, "quarterly", now) <= get_usage_cost(stock, "yearly", now)
        /\ YoungUsageCost(stock, now) <= get_usage_cost(stock, "monthly", now)
        /\ \A period \in {"monthly", "quarterly", "yearly"} :
              (last.op = "get_usage_cost" /\ returned.arg = period /\ returned.op = "get_usage_cost")
              => returned.number = get_usage_cost(stock, period, now)

\* the monthly cost has just been computed for an item of cost 10 with a
\* record 5 days old and one 40 days old: it is positive and below the
\* quarterly cost
C38_Witness ==
    /\ last.op = "get_usage_cost"
    /\ returned.arg = "monthly"
    /\ returned.number > 0
    /\ returned.number < get_usage_cost(stock, "quarterly", now)
    /\ UsageAges(stock, now) = <<<<40 * 86400, 3>>, <<5 * 86400, 2>>>>

====
